---- MODULE Spec2Model ----
(***************************************************************************)
(* Model of the Parus AI request pipeline: the Telegram text handler, the  *)
(* LangGraph workflow (router -> one agent -> END), the SQL agent and the  *)
(* self-healing pandas/matplotlib executor.                                *)
(*                                                                         *)
(* Texts are sequences of one-character strings wherever the program       *)
(* searches, splits or replaces inside them; fixed messages are sequences  *)
(* of one token, the Russian ones transliterated.  Python values are       *)
(* records [kind, v] with v a text.                                        *)
(***************************************************************************)
EXTENDS Integers, Sequences, FiniteSets, TLC

\* ------------------------------------------------------------------ bounds
\* Longest model reply to the SQL chain, counted in fragments.
MaxFrags == 3
\* Rows the file_metadata table may hold when a run starts.
MaxFiles == 2
\* Figures one execution of generated code may open.
MaxFigs == 1
\* Pieces a file name is made of.
MaxNameFrags == 2
\* the seconds that pass while documents are ingested
MaxTicks == 1

\* ------------------------------------------------------------- python str
\* s[i:] with a 0-based index
Slice(s, i) == SubSeq(s, i + 1, Len(s))

\* whether sub occurs in s at 0-based index i
MatchAt(sub, s, i) ==
    /\ i + Len(sub) <= Len(s)
    /\ \A j \in 1..Len(sub) : s[i + j] = sub[j]

\* str.find: 0-based index of the first occurrence, -1 when there is none
Find(sub, s) ==
    LET hits == {i \in 0..Len(s) : MatchAt(sub, s, i)}
    IN  IF hits = {} THEN -1
        ELSE CHOOSE i \in hits : \A k \in hits : i <= k

\* the `in` operator on strings
Contains(sub, s) == Find(sub, s) # -1

\* str.split(sep): left to right, non-overlapping
RECURSIVE Split(_, _)
Split(s, sep) ==
    LET i == Find(sep, s)
    IN  IF i = -1 THEN <<s>>
        ELSE <<SubSeq(s, 1, i)>> \o Split(Slice(s, i + Len(sep)), sep)

\* str.replace(old, new): left to right, non-overlapping
RECURSIVE Replace(_, _, _)
Replace(s, old, new) ==
    LET i == Find(old, s)
    IN  IF i = -1 THEN s
        ELSE SubSeq(s, 1, i) \o new \o Replace(Slice(s, i + Len(old)), old, new)

UpperChar(c) ==
    CASE c = "s" -> "S" [] c = "q" -> "Q" [] c = "l" -> "L"
      [] c = "e" -> "E" [] c = "c" -> "C" [] c = "t" -> "T"
      [] c = "u" -> "U" [] c = "r" -> "R" [] c = "y" -> "Y"
      [] c = "x" -> "X" [] c = "p" -> "P" [] c = "h" -> "H"
      [] c = "o" -> "O" [] c = "n" -> "N"
      [] OTHER -> c

\* a character whose upper case is two characters (U+00DF, upper "SS")
SharpS == "SHARP_S"

\* str.upper: character by character, SharpS giving two
RECURSIVE Upper(_)
Upper(s) ==
    IF s = <<>> THEN <<>>
    ELSE (IF Head(s) = SharpS THEN <<"S", "S">> ELSE <<UpperChar(Head(s))>>)
             \o Upper(Tail(s))

Whitespace == {" ", "\n"}

RECURSIVE LStrip(_)
LStrip(s) == IF s # <<>> /\ Head(s) \in Whitespace THEN LStrip(Tail(s)) ELSE s

RECURSIVE RStrip(_)
RStrip(s) ==
    IF s # <<>> /\ s[Len(s)] \in Whitespace
    THEN RStrip(SubSeq(s, 1, Len(s) - 1)) ELSE s

\* str.strip
Strip(s) == RStrip(LStrip(s))

\* ------------------------------------------------------------ text pieces
\* the backtick character (the lexer takes none inside a string)
Bq == "BACKTICK"
Fence == <<Bq, Bq, Bq>>
SqlTag == <<"s", "q", "l">>
SqlQueryLabel == <<"S", "Q", "L", "Q", "u", "e", "r", "y", ":">>
SelectKw == <<"S", "E", "L", "E", "C", "T">>
SelectLower == <<"s", "e", "l", "e", "c", "t">>
PythonFence == Fence \o <<"p", "y", "t", "h", "o", "n">>

\* ----------------------------------------------------------- python values
None == [kind |-> "None", v |-> <<>>]
Str(t) == [kind |-> "str", v |-> t]
Num(t) == [kind |-> "num", v |-> t]
\* str(x)
PyStr(x) == IF x.kind = "None" THEN <<"None">> ELSE x.v
\* bool(x) for the values above (a number of the model is never zero)
Truthy(x) == x.kind # "None" /\ ~(x.kind = "str" /\ x.v = <<>>)

\* ------------------------------------------------------------- dict helpers
EmptyDict == [k \in {} |-> None]
\* dict.get(k) / dict.get(k, default)
Get(d, k, default) == IF k \in DOMAIN d THEN d[k] ELSE default
\* the state after a node partial update is merged into it
Merge(d, u) ==
    [k \in DOMAIN d \cup DOMAIN u |-> IF k \in DOMAIN u THEN u[k] ELSE d[k]]

\* str.endswith
EndsWith(s, suffix) ==
    /\ Len(suffix) <= Len(s)
    /\ SubSeq(s, Len(s) - Len(suffix) + 1, Len(s)) = suffix

\* ------------------------------------------------------------- exceptions
\* what `except Exception as e` binds: the class name and str(e)
Exc(type, msg) == [type |-> type, msg |-> msg]
LlmErrors == {Exc("ConnectionError", "ollama unreachable")}
ExecErrors == {Exc("KeyError", "'Month'"), Exc("ValueError", "bad x")}
StoreErrors == {Exc("ProgrammingError", "no such table")}
NoExc == Exc("", "")
\* traceback.format_exc() inside the except block
FormatExc(e) == <<"Traceback (most recent call last): ", e.type, ": ", e.msg>>

\* --------------------------------------------------------- SQL agent texts
\* the pieces a reply of the SQL chain is made of
SqlFragments ==
    {Fence, SqlTag, SqlQueryLabel, SelectKw, SelectLower, <<" ">>, <<"x">>,
     <<SharpS>>}

RECURSIVE SqlRepliesOfLen(_)
SqlRepliesOfLen(n) ==
    IF n = 0 THEN {<<>>}
    ELSE {f \o t : f \in SqlFragments, t \in SqlRepliesOfLen(n - 1)}

\* every reply chain.ainvoke may give, up to MaxFrags fragments
SqlReplies == UNION {SqlRepliesOfLen(n) : n \in 0..MaxFrags}
\* one query and one refusal
FewSqlReplies == {SelectKw \o <<" ">> \o <<"x">>, <<"x">>}

\* generated_sql after the markdown block is unwrapped
StripFence(g) ==
    IF Contains(Fence, g) THEN Replace(Split(g, Fence)[2], SqlTag, <<>>) ELSE g

\* generated_sql after a repeated "SQLQuery:" label is cut off
StripLabel(g) ==
    IF Contains(SqlQueryLabel, g) THEN Split(g, SqlQueryLabel)[2] ELSE g

\* generated_sql as it stands when SELECT is looked for
CleanupBlock(raw) == StripLabel(StripFence(raw))

select_index(g) == Find(SelectKw, Upper(g))

clean_sql(g) == Strip(Slice(g, select_index(g)))

RefusalDict(g) ==
    [sql |-> Str(<<"Not generated">>), result |-> Str(<<>>), answer |-> Str(g)]

SqlErrorDict(q, e) ==
    [sql |-> Str(q), error |-> Str(<<e.msg>>),
     answer |-> Str(<<"Oshibka vypolneniya SQL: ", e.msg>>)]

SqlAnswerDict(q, res, content) ==
    [sql |-> Str(q), result |-> Str(res), answer |-> Str(content)]

\* what db.run returns as text
StoreResults == {<<"[(7,)]">>, <<>>}
InterpretReplies == {<<"V otdele 7 sotrudnikov.">>}

\* ----------------------------------------------------------------- router
RouterReplies ==
    {"not json", "[\"sql\"]", "\"python\"", "{}", "{\"intent\": null}",
     "{\"intent\": 5}", "{\"intent\": \"sql\"}", "{\"intent\": \"python\"}",
     "{\"intent\": \"general\"}", "{\"intent\": \"chat\"}"}

\* the three well-formed classifications
FewRouterReplies ==
    {"{\"intent\": \"sql\"}", "{\"intent\": \"python\"}",
     "{\"intent\": \"general\"}"}

\* json.loads: whether it parses, the Python type it gives, and for a dict
\* whether the key "intent" is there and what it holds
Parsed(ok, type, has, val) ==
    [ok |-> ok, type |-> type, has_intent |-> has, intent |-> val]
json_loads(c) ==
    CASE c = "not json" -> Parsed(FALSE, "", FALSE, None)
      [] c = "[\"sql\"]" -> Parsed(TRUE, "list", FALSE, None)
      [] c = "\"python\"" -> Parsed(TRUE, "str", FALSE, None)
      [] c = "{}" -> Parsed(TRUE, "dict", FALSE, None)
      [] c = "{\"intent\": null}" -> Parsed(TRUE, "dict", TRUE, None)
      [] c = "{\"intent\": 5}" -> Parsed(TRUE, "dict", TRUE, Num(<<"5">>))
      [] c = "{\"intent\": \"sql\"}" -> Parsed(TRUE, "dict", TRUE, Str(<<"sql">>))
      [] c = "{\"intent\": \"python\"}" ->
             Parsed(TRUE, "dict", TRUE, Str(<<"python">>))
      [] c = "{\"intent\": \"general\"}" ->
             Parsed(TRUE, "dict", TRUE, Str(<<"general">>))
      [] c = "{\"intent\": \"chat\"}" -> Parsed(TRUE, "dict", TRUE, Str(<<"chat">>))

General == Str(<<"general">>)

\* the try block of router_node on a reply: data.get("intent", "general"),
\* with the except branch for what json.loads or .get raise
IntentOfReply(c) ==
    LET data == json_loads(c)
    IN  IF ~data.ok THEN General
        ELSE IF data.type # "dict" THEN General
        ELSE IF data.has_intent THEN data.intent ELSE General

\* (variant: the general key is wired to the python agent)
EdgeMapMiswired(key) ==
    CASE key = <<"sql", "_agent">> -> "sql_agent"
      [] key = <<"python", "_agent">> -> "python_agent"
      [] key = <<"general", "_agent">> -> "python_agent"
      [] OTHER -> "KeyError"
\* the path map of add_conditional_edges
EdgeMap(key) ==
    CASE key = <<"sql", "_agent">> -> "sql_agent"
      [] key = <<"python", "_agent">> -> "python_agent"
      [] key = <<"general", "_agent">> -> "general_agent"
      [] OTHER -> "KeyError"

\* state["intent"] + "_agent"; fails with TypeError unless intent is a str
RouteKeyRaises(intent) == intent.kind # "str"
route_condition(intent) == intent.v \o <<"_agent">>

\* --------------------------------------------------------------- analytics
max_retries == 3
\* .limit(5) of the metadata query
FilesLimit == 5

CsvExt == <<".", "c", "s", "v">>
XlsxExt == <<".", "x", "l", "s", "x">>
\* file names: up to MaxNameFrags pieces, each a stem or an extension
NameFragments ==
    {<<"a">>, CsvExt, XlsxExt, <<".", "t", "x", "t">>, <<".", "C", "S", "V">>,
     <<".", "x", "l", "s">>}
RECURSIVE NamesOfLen(_)
NamesOfLen(n) ==
    IF n = 0 THEN {<<>>}
    ELSE {f \o t : f \in NameFragments, t \in NamesOfLen(n - 1)}
FileNames == UNION {NamesOfLen(n) : n \in 1..MaxNameFrags}
CsvName == <<"a", ".", "c", "s", "v">>
XlsxName == <<"b", ".", "x", "l", "s", "x">>

\* order_by(id.desc()).limit(5) over the rows, which are kept in id order
RECURSIVE Reversed(_)
Reversed(s) == IF s = <<>> THEN <<>> ELSE Reversed(Tail(s)) \o <<Head(s)>>
RelevantFiles(rows) ==
    LET desc == Reversed(rows)
    IN  SubSeq(desc, 1, IF Len(desc) < FilesLimit THEN Len(desc) ELSE FilesLimit)

\* unique_name of process_file: the whole seconds of the clock, "_", the name
ObjectName(seconds, filename) == <<ToString(seconds), "_">> \o filename

\* the file_metadata table after n uploads, .csv and .xlsx taking turns, the
\* i-th made in second i
FileTable(n) ==
    [i \in 1..n |->
        LET filename == IF i % 2 = 1 THEN CsvName ELSE XlsxName
        IN  [id |-> i, filename |-> filename,
             minio_path |-> ObjectName(i, filename)]]

Question == <<"skolko zatrat v marte?">>

\* replies of the code-writing model call, and the code text kept of each
CodeReplies ==
    {PythonFence \o <<"\n", "A", "\n">> \o Fence, <<"B", "\n">>}
FewCodeReplies == {<<"B", "\n">>}
StripMarkup(content) ==
    Strip(Replace(Replace(content, PythonFence, <<>>), Fence, <<>>))

\* (variant: the error is left out of the message)
GenMessageNoError(query, error) == query
\* the question _generate_code sends, with the previous error when there is one
GenMessage(query, error) ==
    IF Truthy(error)
    THEN query \o <<"\n\nPREVIOUS ERROR: ">> \o error.v
               \o <<"\nHINT: Remove plt.show()! Check your column names.">>
    ELSE query

\* last_error as the except block formats it
FormatLastError(e) ==
    Str(<<e.type, ": ", e.msg, "\nTraceback: ">> \o FormatExc(e))

\* (variant: an error already captured is kept)
NextLastErrorKeepFirst(previous, e) ==
    IF previous = None THEN FormatLastError(e) ELSE previous
\* last_error after the except block of a failed attempt
NextLastError(previous, e) == FormatLastError(e)

\* what the executed code left in local_scope under "final_result"
Binding(bound, val) == [bound |-> bound, val |-> val]
FinalResultBindings ==
    {Binding(FALSE, None), Binding(TRUE, None), Binding(TRUE, Str(<<>>)),
     Binding(TRUE, Str(<<"Itogo 42">>)), Binding(TRUE, Num(<<"42">>)),
     Binding(TRUE, Str(<<"Grafik postroen.">>))}

\* the table generated code may modify in place (the model lets it reach
\* the one of the lowest id), 0 standing for none
Touchable(dfs) ==
    {0} \cup {id \in DOMAIN dfs : \A other \in DOMAIN dfs : id <= other}

\* what one exec(code, {}, local_scope) may do: open figures, modify a table
\* it was handed in place, and then either raise or end with final_result
\* bound or not
ExecOutcomes(dfs) ==
    [exc : ExecErrors, nfigs : 0..MaxFigs,
     final_result : {Binding(FALSE, None)}, touch : Touchable(dfs)]
    \cup
    \* the code raised after the initial final_result = "Data not found"
    [exc : ExecErrors, nfigs : {0},
     final_result : {Binding(TRUE, Str(<<"Data not found">>))}, touch : {0}]
    \cup
    [exc : {NoExc}, nfigs : 0..MaxFigs,
     final_result : FinalResultBindings, touch : Touchable(dfs)]

\* the same with one exception, one answer and no table modified
FewExecOutcomes ==
    [exc : {Exc("KeyError", "'Month'")}, nfigs : 0..MaxFigs,
     final_result : {Binding(FALSE, None)}, touch : {0}]
    \cup
    [exc : {NoExc}, nfigs : 0..MaxFigs,
     final_result : {Binding(TRUE, Str(<<"Itogo 42">>))}, touch : {0}]

\* the two handles of every scope, and the name of a table in it
Handles ==
    [pd |-> [kind |-> "module", v |-> <<"pandas">>],
     plt |-> [kind |-> "module", v |-> <<"matplotlib.pyplot">>]]
DfName(id) == "df_" \o ToString(id)
DfNames(dfs) == {DfName(id) : id \in DOMAIN dfs}
\* the scope holds the table object of dfs itself, named here by its key
TableOf(dfs, name) == [kind |-> "DataFrame", v |-> <<name>>]

\* (variant: the names of the previous execution stay in the scope)
LocalScopeKept(previous, dfs) ==
    Merge(previous,
          Merge(Handles, [name \in DfNames(dfs) |-> TableOf(dfs, name)]))
\* local_scope as _execute_safe builds it, whatever the scope of the
\* previous execution held
LocalScope(previous, dfs) ==
    Merge(Handles, [name \in DfNames(dfs) |-> TableOf(dfs, name)])

\* local_scope after exec: the names the code bound are added
ScopeAfter(local_scope, o) ==
    IF o.final_result.bound
    THEN Merge(local_scope, [final_result |-> o.final_result.val])
    ELSE local_scope

\* local_scope.get("final_result", ...)
ReadScope(local_scope) ==
    Get(local_scope, "final_result", Str(<<"Kod vypolnen.">>))
ReadFinalResult(b) == IF b.bound THEN b.val ELSE Str(<<"Kod vypolnen.">>)

\* the figures the code of `code` opened in run r, in order of creation
Drawn(r, code, n) == [i \in 1..n |-> [run |-> r, code |-> code, n |-> i]]

\* savefig of the current figure, base64-encoded
PlotB64(registry) ==
    LET fig == registry[Len(registry)]
    IN  Str(<<"png:", fig.run, ":">> \o fig.code)

\* (variant: the figures open at the start stay open)
CloseAllSkipped(registry) == registry
\* the registry after plt.close('all') at the start of _execute_safe
CloseAll(registry) == <<>>

\* (variant: the figures stay open after the capture)
AfterCaptureLeftOpen(registry) == registry
\* the registry after plt.close('all') that follows the capture
AfterCapture(registry) == <<>>

\* (variant: the text is replaced whenever a figure was captured)
ChartTextAlways(final_result, registry) ==
    IF registry # <<>> THEN Str(<<"Grafik postroen.">>) ELSE final_result
\* final_result after step 4 of _execute_safe
ChartText(final_result, registry) ==
    IF registry # <<>> /\ final_result.kind # "str"
    THEN Str(<<"Grafik postroen.">>) ELSE final_result

AnalyticsResponse(answer_text, plot_base64, executed_code, is_error) ==
    [answer_text |-> answer_text, plot_base64 |-> plot_base64,
     executed_code |-> executed_code, is_error |-> is_error]

DataErrorResponse == AnalyticsResponse(<<"Oshibka dannyh">>, None, <<>>, TRUE)
\* (variant: the early return is missing and the empty dfs check answers)
NoFilesFallsThrough == DataErrorResponse
NoFilesResponse ==
    AnalyticsResponse(<<"Net faylov. Zagruzite Excel.">>, None, <<>>, FALSE)
\* (variant: the code text is left out of the response)
SuccessResponseNoCode(result, plot_b64, code) ==
    AnalyticsResponse(PyStr(result), plot_b64, <<>>, FALSE)
SuccessResponse(result, plot_b64, code) ==
    AnalyticsResponse(PyStr(result), plot_b64, code, FALSE)
ExhaustedResponse(last_error, code) ==
    AnalyticsResponse(<<"Ne udalos. Oshibka: ">> \o PyStr(last_error), None,
                      code, TRUE)

\* (variant: the loop runs one iteration too many)
HasNextAttemptOffByOne(attempt) == attempt + 1 <= max_retries
\* whether `for attempt in range(max_retries)` has an iteration after this one
HasNextAttempt(attempt) == attempt + 1 < max_retries

\* ----------------------------------------------------------------- handler
DefaultAnswer == Str(<<"Ne udalos sformirovat otvet.">>)
InternalErrorText == <<"Proizoshla vnutrennyaya oshibka pri obrabotke zaprosa.">>

\* ------------------------------------------------------------------ state
\* the text messages being handled; Spec starts one, the other never arrives
Runs == {"r1", "r2"}

VARIABLES
    pc,       \* per run: the await point or graph node the run stands at
    state,    \* per run: the GraphState dict of the workflow invocation
    an,       \* per run: run_analysis locals (files_meta, dfs, attempt, last_error, code)
    sq,       \* per run: generate_response locals (raw reply, clean_sql, result_str)
    aresp,    \* per run: what run_analysis returned ([returned |-> FALSE] before)
    sresp,    \* per run: the dict generate_response returned (empty before)
    outcome,  \* per run: how app_workflow.ainvoke ended: pending, returned, raised
    reply,    \* per run: what handle_text sent to the chat
    figs,     \* pyplot figure registry of the process, in order of creation
    files,    \* rows of the file_metadata table
    trace,    \* per run: the calls made so far, in order
    classified, \* per run: what the classifier call gave the router
    attempts, \* per run: per iteration of the retry loop, the message sent to
              \* _generate_code, the code it returned (if it did), the
              \* exception caught, the figures drawn and final_result
    loop,     \* the run whose synchronous call occupies the event loop thread,
              \* "free" while every coroutine is suspended at an await
    inputs,   \* "wide" or "narrow": which input sets the behaviour draws from
    probe,    \* the file name given to the two dataset loads, and what each did
    ing       \* ingestion: the clock in seconds, the objects of the bucket and
              \* per upload the position and locals of handle_document

vars == <<pc, state, an, sq, aresp, sresp, outcome, reply, figs, files, trace,
          classified, attempts, loop, inputs, probe, ing>>

NoAnalysis ==
    [fetched |-> FALSE, files_meta |-> <<>>, dfs |-> EmptyDict, attempt |-> 0,
     last_error |-> None, code |-> <<>>]
NoSql == [raw |-> <<>>, clean_sql |-> <<>>, result_str |-> <<>>]
NotReturned ==
    [returned |-> FALSE, answer_text |-> <<>>, plot_base64 |-> None,
     executed_code |-> <<>>, is_error |-> FALSE]
Returned(resp) ==
    [returned |-> TRUE, answer_text |-> resp.answer_text,
     plot_base64 |-> resp.plot_base64, executed_code |-> resp.executed_code,
     is_error |-> resp.is_error]
NoReply == [sent |-> FALSE, text |-> <<>>, photo |-> None]

\* documents sent to the bot, the second at which the model starts (after
\* every row of the table was made), and an upload not yet handled
Uploads == {"u1", "u2"}
StartClock == MaxFiles + 1
NoUpload == [pc |-> "idle", filename |-> <<>>, minio_path |-> <<>>, row |-> 0]

NoProbe == [filename |-> <<>>, full |-> "none", preview |-> "none"]

InitRun(started, width, names) ==
    /\ pc = [r \in Runs |-> IF r \in started THEN "idle" ELSE "off"]
    /\ state = [r \in Runs |-> EmptyDict]
    /\ an = [r \in Runs |-> NoAnalysis]
    /\ sq = [r \in Runs |-> NoSql]
    /\ aresp = [r \in Runs |-> NotReturned]
    /\ sresp = [r \in Runs |-> EmptyDict]
    /\ outcome = [r \in Runs |-> "pending"]
    /\ reply = [r \in Runs |-> NoReply]
    /\ figs = <<>>
    /\ \E n \in 0..MaxFiles : files = FileTable(n)
    /\ trace = [r \in Runs |-> <<>>]
    /\ classified = [r \in Runs |-> "pending"]
    /\ attempts = [r \in Runs |-> <<>>]
    /\ loop = "free"
    /\ inputs = width
    /\ \E f \in names : probe = [NoProbe EXCEPT !.filename = f]
    /\ ing = [clock |-> StartClock,
              blobs |-> [path \in {files[i].minio_path : i \in DOMAIN files}
                            |-> <<"bytes of", path>>],
              up |-> [u \in Uploads |-> NoUpload]]

Init == InitRun({"r1"}, "wide", {<<>>})

Log(r, events) == [trace EXCEPT ![r] = @ \o events]

\* the input set of the specification in force
Offer(wide, narrow) == IF inputs = "wide" THEN wide ELSE narrow

\* ------------------------------------------------------------ handle_text
\* handle_text up to its await of app_workflow.ainvoke
HandleText(r) ==
    /\ pc[r] = "idle"
    /\ loop = "free"
    /\ pc' = [pc EXCEPT ![r] = "router"]
    /\ state' = [state EXCEPT ![r] =
                    [question |-> Str(Question), session_id |-> Str(<<"42">>)]]
    /\ trace' = Log(r, <<"ainvoke">>)
    /\ UNCHANGED <<an, sq, aresp, sresp, outcome, reply, figs, files,
                   loop, inputs, probe, ing,
                   classified, attempts>>

\* an exception leaves a node: nothing in the graph catches it, ainvoke raises
RaiseOut(r, events) ==
    /\ pc' = [pc EXCEPT ![r] = "raised"]
    /\ outcome' = [outcome EXCEPT ![r] = "raised"]
    /\ trace' = Log(r, events)

\* a branch node returns its partial state; its edge leads to END
ReturnToEnd(r, update, events) ==
    /\ pc' = [pc EXCEPT ![r] = "END"]
    /\ state' = [state EXCEPT ![r] = Merge(@, update)]
    /\ outcome' = [outcome EXCEPT ![r] = "returned"]
    /\ trace' = Log(r, events)

\* ------------------------------------------------------------ router_node
RouterReturn(r, heard, intent) ==
    /\ pc' = [pc EXCEPT ![r] = "route"]
    /\ state' = [state EXCEPT ![r] = Merge(@, [intent |-> intent])]
    /\ trace' = Log(r, <<"router", "llm:router">>)
    /\ classified' = [classified EXCEPT ![r] = heard]
    /\ UNCHANGED <<an, sq, aresp, sresp, outcome, reply, figs, files,
                   loop, inputs, probe, ing, attempts>>

\* router_node from the return of the classifier call
RouterNode(r) ==
    /\ pc[r] = "router"
    /\ loop = "free"
    /\ \/ \E c \in Offer(RouterReplies, FewRouterReplies) :
              RouterReturn(r, c, IntentOfReply(c))
       \/ \E e \in LlmErrors : RouterReturn(r, "raised", General)

\* the conditional edge after the router
RouteCondition(r) ==
    /\ pc[r] = "route"
    /\ loop = "free"
    /\ LET intent == state[r]["intent"]
       IN  \/ /\ RouteKeyRaises(intent)
              /\ RaiseOut(r, <<"route:TypeError">>)
              /\ UNCHANGED state
           \/ /\ ~RouteKeyRaises(intent)
              /\ EdgeMap(route_condition(intent)) = "KeyError"
              /\ RaiseOut(r, <<"route:KeyError">>)
              /\ UNCHANGED state
           \/ /\ ~RouteKeyRaises(intent)
              /\ EdgeMap(route_condition(intent)) # "KeyError"
              /\ pc' = [pc EXCEPT ![r] = EdgeMap(route_condition(intent))]
              /\ trace' = Log(r, <<"route">>)
              /\ UNCHANGED <<state, outcome>>
    /\ UNCHANGED <<an, sq, aresp, sresp, reply, figs, files,
                   loop, inputs, probe, ing, classified,
                   attempts>>

\* --------------------------------------------------------------- sql_node
\* a variant that runs the query again after the exception
StoreCallsRetried == <<"store", "store">>

\* the calls of the try block when db.run raises: the one db.run
StoreCalls == <<"store">>

SqlUpdate(response) ==
    [sql_query |-> Get(response, "sql", None),
     sql_result |-> Get(response, "result", None),
     final_answer |-> Get(response, "answer", None)]

SqlReturn(r, raw, response, events) ==
    /\ sresp' = [sresp EXCEPT ![r] = response]
    /\ sq' = [sq EXCEPT ![r].raw = raw]
    /\ ReturnToEnd(r, SqlUpdate(response), events)

\* sql_node from its start: SQLService(), the query chain and the cleanup
\* block, up to the return of the refusal or the entry into db.run, which is
\* called without an await and keeps the event loop thread until it is over
SqlNode(r) ==
    /\ pc[r] = "sql_agent"
    /\ loop = "free"
    /\ \/ /\ \E e \in StoreErrors : RaiseOut(r, <<"sql_agent">>)
          /\ UNCHANGED <<state, sq, sresp, loop>>
       \/ /\ \E e \in LlmErrors : RaiseOut(r, <<"sql_agent", "llm:sql">>)
          /\ UNCHANGED <<state, sq, sresp, loop>>
       \/ \E raw \in Offer(SqlReplies, FewSqlReplies) :
            LET generated_sql == CleanupBlock(raw)
                called == <<"sql_agent", "llm:sql">>
            IN  IF select_index(generated_sql) = -1
                THEN /\ SqlReturn(r, raw, RefusalDict(generated_sql), called)
                     /\ UNCHANGED loop
                ELSE /\ sq' = [sq EXCEPT ![r] =
                                 [raw |-> raw,
                                  clean_sql |-> clean_sql(generated_sql),
                                  result_str |-> <<>>]]
                     /\ pc' = [pc EXCEPT ![r] = "db_run"]
                     /\ loop' = r
                     /\ trace' = Log(r, called)
                     /\ UNCHANGED <<state, sresp, outcome>>
    /\ UNCHANGED <<an, aresp, reply, figs, files, inputs, probe, ing, classified,
                   attempts>>

\* db.run(clean_sql) returns the rows as text or raises; on an exception
\* generate_response returns the error dict, otherwise it goes on to the
\* await of the interpretation call
SqlRun(r) ==
    /\ pc[r] = "db_run"
    /\ loop = r
    /\ loop' = "free"
    /\ \/ \E e \in StoreErrors :
            /\ SqlReturn(r, sq[r].raw, SqlErrorDict(sq[r].clean_sql, e),
                         StoreCalls)
       \/ \E res \in StoreResults :
            /\ sq' = [sq EXCEPT ![r].result_str = res]
            /\ pc' = [pc EXCEPT ![r] = "sql_interpret"]
            /\ trace' = Log(r, <<"store">>)
            /\ UNCHANGED <<state, sresp, outcome>>
    /\ UNCHANGED <<an, aresp, reply, figs, files, inputs, probe, ing, classified,
                   attempts>>

\* the interpretation call returns or raises, and sql_node with it
SqlInterpret(r) ==
    /\ pc[r] = "sql_interpret"
    /\ loop = "free"
    /\ \/ /\ \E e \in LlmErrors : RaiseOut(r, <<"llm:interpret">>)
          /\ UNCHANGED <<state, sq, sresp>>
       \/ \E content \in InterpretReplies :
            SqlReturn(r, sq[r].raw,
                      SqlAnswerDict(sq[r].clean_sql, sq[r].result_str, content),
                      <<"llm:interpret">>)
    /\ UNCHANGED <<an, aresp, reply, figs, files,
                   loop, inputs, probe, ing, classified, attempts>>

\* ------------------------------------------------------------ python_node
PythonUpdate(response) ==
    [python_code |-> Str(response.executed_code),
     plot_base64 |-> response.plot_base64,
     final_answer |-> Str(response.answer_text)]

\* run_analysis returns and python_node with it
PythonReturn(r, response, events) ==
    /\ aresp' = [aresp EXCEPT ![r] = Returned(response)]
    /\ ReturnToEnd(r, PythonUpdate(response), events)

\* the reader the loading loop picks for a file name
FullLoader(filename) ==
    IF EndsWith(filename, CsvExt) THEN "read_csv" ELSE "read_excel"

\* what _get_preview does for a file name: a reader, or the ValueError
PreviewLoader(filename) ==
    IF EndsWith(filename, XlsxExt) THEN "read_excel"
    ELSE IF EndsWith(filename, CsvExt) THEN "read_csv"
    ELSE "ValueError"

\* one get_file and one read per entry, in order
RECURSIVE LoadCalls(_)
LoadCalls(metas) ==
    IF metas = <<>> THEN <<>>
    ELSE <<"blob", FullLoader(Head(metas).filename)>> \o LoadCalls(Tail(metas))

\* python_node from its start: the session, the executor and the metadata
\* query, up to the return for an empty table or the entry into the loading
\* loop, whose get_file and pd.read_* calls are made without an await
PythonNode(r) ==
    /\ pc[r] = "python_agent"
    /\ loop = "free"
    /\ \/ /\ \E e \in StoreErrors : RaiseOut(r, <<"python_agent">>)
          /\ UNCHANGED <<state, an, aresp, loop>>
       \/ LET files_meta == RelevantFiles(files)
              called == <<"python_agent", "db:files">>
          IN  IF files_meta = <<>>
              THEN /\ PythonReturn(r, NoFilesResponse, called)
                   /\ an' = [an EXCEPT ![r].fetched = TRUE]
                   /\ UNCHANGED loop
              ELSE /\ an' = [an EXCEPT ![r].fetched = TRUE,
                                       ![r].files_meta = files_meta]
                   /\ pc' = [pc EXCEPT ![r] = "loading"]
                   /\ loop' = r
                   /\ trace' = Log(r, called)
                   /\ UNCHANGED <<state, aresp, outcome>>
    /\ UNCHANGED <<sq, sresp, reply, figs, files, inputs, probe, ing, classified,
                   attempts>>

\* the loading loop: every entry is fetched and read, the ones that raise
\* are skipped; then the return for an empty dfs or the first await of
\* _generate_code
LoadDatasets(r) ==
    /\ pc[r] = "loading"
    /\ loop = r
    /\ loop' = "free"
    /\ LET files_meta == an[r].files_meta
           ids == {files_meta[i].id : i \in DOMAIN files_meta}
       IN  \E loaded \in Offer(SUBSET ids, {ids}) :
             IF loaded = {}
             THEN /\ PythonReturn(r, DataErrorResponse, LoadCalls(files_meta))
                  /\ UNCHANGED an
             ELSE /\ an' = [an EXCEPT ![r] =
                              [fetched |-> TRUE,
                               files_meta |-> files_meta,
                               dfs |-> [id \in loaded |-> "as_loaded"],
                               attempt |-> 0, last_error |-> None,
                               code |-> <<>>]]
                  /\ pc' = [pc EXCEPT ![r] = "generate"]
                  /\ trace' = Log(r, LoadCalls(files_meta))
                  /\ UNCHANGED <<state, aresp, outcome>>
    /\ UNCHANGED <<sq, sresp, reply, figs, files, inputs, probe, ing, classified,
                   attempts>>

\* the except block of the retry loop, then the next iteration or the
\* return after the loop
AttemptFailed(r, code, dfs, e, events) ==
    LET last_error == NextLastError(an[r].last_error, e)
    IN  IF HasNextAttempt(an[r].attempt)
        THEN /\ an' = [an EXCEPT ![r].attempt = @ + 1,
                                 ![r].last_error = last_error,
                                 ![r].code = code, ![r].dfs = dfs]
             /\ pc' = [pc EXCEPT ![r] = "generate"]
             /\ trace' = Log(r, events)
             /\ UNCHANGED <<state, aresp, outcome>>
        ELSE /\ an' = [an EXCEPT ![r].last_error = last_error,
                                 ![r].code = code, ![r].dfs = dfs]
             /\ PythonReturn(r, ExhaustedResponse(last_error, code), events)

\* the tables after the executed code modified table `touch` in place
Touched(dfs, touch) ==
    [id \in DOMAIN dfs |-> IF id = touch THEN "modified" ELSE dfs[id]]

\* the record kept of one iteration: the arguments of the generation call,
\* whether it returned and with what code, the exception caught, the number
\* of figures open when exec ended, what the code bound to final_result and
\* local_scope as exec left it
Tried(call, generated, code, exc, nfigs, final_result, local_scope) ==
    [msg |-> call.msg, previous_code |-> call.previous_code,
     generated |-> generated, code |-> code, exc |-> exc, nfigs |-> nfigs,
     final_result |-> final_result, local_scope |-> local_scope]

\* local_scope of the latest _execute_safe call of the run, as exec left it
LastScope(tried) ==
    LET ran == {j \in DOMAIN tried : tried[j].generated}
    IN  IF ran = {} THEN EmptyDict
        ELSE tried[CHOOSE j \in ran : \A k \in ran : k <= j].local_scope

\* the call run_analysis makes: _generate_code(user_query, schemas_desc,
\* last_error), previous_code left at its default
GenerateCall(query, last_error) ==
    [msg |-> GenMessage(query, last_error), previous_code |-> <<>>]

\* one iteration of the retry loop from the return of _generate_code to the
\* except block or the entry into _execute_safe, which runs without an await
Attempt(r) ==
    /\ pc[r] = "generate"
    /\ loop = "free"
    /\ LET call == GenerateCall(Question, an[r].last_error)
           prompt == <<"llm:code">> \o call.msg
       IN
       \/ /\ \E e \in LlmErrors :
                /\ AttemptFailed(r, an[r].code, an[r].dfs, e,
                                 prompt \o <<"gen:raised">>)
                /\ attempts' = [attempts EXCEPT ![r] =
                      Append(@, Tried(call, FALSE, <<>>, e, 0,
                                      Binding(FALSE, None), EmptyDict))]
          /\ UNCHANGED loop
       \/ \E content \in Offer(CodeReplies, FewCodeReplies) :
            LET code == StripMarkup(content)
            IN  /\ an' = [an EXCEPT ![r].code = code]
                /\ pc' = [pc EXCEPT ![r] = "exec"]
                /\ loop' = r
                /\ trace' = Log(r, prompt \o <<"gen:">> \o code)
                /\ UNCHANGED <<state, aresp, outcome, attempts>>
    /\ UNCHANGED <<sq, sresp, reply, figs, files, inputs, probe, ing, classified>>

\* _execute_safe(code, dfs) and what the loop does with its result
Execute(r) ==
    /\ pc[r] = "exec"
    /\ loop = r
    /\ loop' = "free"
    /\ \E o \in Offer(ExecOutcomes(an[r].dfs), FewExecOutcomes) :
         LET code == an[r].code
             call == GenerateCall(Question, an[r].last_error)
             dfs == Touched(an[r].dfs, o.touch)
             \* plt.close('all'), then what the code opens
             registry == CloseAll(figs) \o Drawn(r, code, o.nfigs)
             local_scope ==
                 ScopeAfter(LocalScope(LastScope(attempts[r]), an[r].dfs), o)
         IN  /\ attempts' = [attempts EXCEPT ![r] =
                   Append(@, Tried(call, TRUE, code, o.exc, o.nfigs,
                                   o.final_result, local_scope))]
             /\ IF o.exc # NoExc
                THEN /\ AttemptFailed(r, code, dfs, o.exc, <<"exec">>)
                     /\ figs' = registry
                ELSE LET final_result == ReadScope(local_scope)
                         plot_b64 == IF registry # <<>>
                                     THEN PlotB64(registry) ELSE None
                     IN  /\ an' = [an EXCEPT ![r].dfs = dfs]
                         /\ figs' = IF registry # <<>>
                                    THEN AfterCapture(registry) ELSE registry
                         /\ PythonReturn(r,
                               SuccessResponse(
                                   ChartText(final_result, registry),
                                   plot_b64, code),
                               <<"exec">>)
    /\ UNCHANGED <<sq, sresp, reply, files, inputs, probe, ing, classified>>

\* ----------------------------------------------------------- general_node
GeneralReplies == {<<"Zdravstvuyte!">>}

GeneralNode(r) ==
    /\ pc[r] = "general_agent"
    /\ loop = "free"
    /\ \/ /\ \E e \in LlmErrors : RaiseOut(r, <<"general_agent", "llm:general">>)
          /\ UNCHANGED state
       \/ \E content \in GeneralReplies :
            ReturnToEnd(r, [final_answer |-> Str(content)],
                        <<"general_agent", "llm:general">>)
    /\ UNCHANGED <<an, sq, aresp, sresp, reply, figs, files,
                   loop, inputs, probe, ing, classified,
                   attempts>>

\* ------------------------------------------------- handle_text, continued
\* the text or photo handle_text sends for a result of ainvoke
ReplyFor(result) ==
    LET final_answer == Get(result, "final_answer", DefaultAnswer)
        plot_b64 == Get(result, "plot_base64", None)
    IN  IF Truthy(plot_b64)
        THEN [sent |-> TRUE,
              text |-> IF Truthy(final_answer) THEN final_answer.v
                       ELSE <<"Rezultat analiza">>,
              photo |-> plot_b64]
        ELSE [sent |-> TRUE, text |-> final_answer.v, photo |-> None]

\* handle_text after ainvoke: the answer, or the except block's message
Respond(r) ==
    /\ loop = "free"
    /\ \/ /\ pc[r] = "END"
          /\ reply' = [reply EXCEPT ![r] = ReplyFor(state[r])]
       \/ /\ pc[r] = "raised"
          /\ reply' = [reply EXCEPT ![r] =
                          [sent |-> TRUE, text |-> InternalErrorText,
                           photo |-> None]]
    /\ pc' = [pc EXCEPT ![r] = "replied"]
    /\ trace' = Log(r, <<"reply">>)
    /\ UNCHANGED <<state, an, sq, aresp, sresp, outcome, figs, files,
                   loop, inputs, probe, ing,
                   classified, attempts>>

\* ------------------------------------------------------------------- spec
Next ==
    \E r \in Runs :
        \/ HandleText(r)
        \/ RouterNode(r)
        \/ RouteCondition(r)
        \/ SqlNode(r)
        \/ SqlRun(r)
        \/ SqlInterpret(r)
        \/ PythonNode(r)
        \/ LoadDatasets(r)
        \/ Attempt(r)
        \/ Execute(r)
        \/ GeneralNode(r)
        \/ Respond(r)

Spec == Init /\ [][Next]_vars

\* two questions handled at once by the one event loop of the bot
InitConc == InitRun(Runs, "narrow", {<<>>})
SpecConc == InitConc /\ [][Next]_vars

\* the loading loop's body for one entry of the given file name
FullLoad ==
    /\ probe.filename # <<>>
    /\ probe.full = "none"
    /\ probe' = [probe EXCEPT !.full = FullLoader(probe.filename)]
    /\ UNCHANGED <<pc, state, an, sq, aresp, sresp, outcome, reply, figs,
                   files, trace, classified, attempts, loop, inputs, ing>>

\* _get_preview for an upload of the given file name
PreviewLoad ==
    /\ probe.filename # <<>>
    /\ probe.preview = "none"
    /\ probe' = [probe EXCEPT !.preview = PreviewLoader(probe.filename)]
    /\ UNCHANGED <<pc, state, an, sq, aresp, sresp, outcome, reply, figs,
                   files, trace, classified, attempts, loop, inputs, ing>>

\* the two dataset loads applied to every file name
InitLoad == InitRun({}, "narrow", FileNames)
NextLoad == FullLoad \/ PreviewLoad
SpecLoad == InitLoad /\ [][NextLoad]_vars

\* ------------------------------------------------------------- ingestion
\* the file names a document may carry, and the bytes of upload u
UploadNames == {CsvName, XlsxName, <<"a", ".", "t", "x", "t">>}
Bytes(u) == <<"bytes of", u>>
\* what the outside may do to an upload: put_object, the preview read, the
\* schema reply after json.loads (a dict, the fallback dict, or not a dict)
PutOutcomes == {"ok", "raises"}
PreviewOutcomes == {"ok", "raises"}
SchemaOutcomes == {"dict", "fallback", "not a dict"}

\* put_object writes the object whether or not the name is already taken
PutObject(blobs, object_name, data) ==
    [path \in DOMAIN blobs \cup {object_name} |->
        IF path = object_name THEN data ELSE blobs[path]]

\* the UNIQUE constraint on file_metadata.minio_path
PathTaken(table, minio_path) ==
    \E i \in DOMAIN table : table[i].minio_path = minio_path

\* a second of the wall clock passes
Tick ==
    /\ loop = "free"
    /\ ing.clock < StartClock + MaxTicks
    /\ ing' = [ing EXCEPT !.clock = @ + 1]
    /\ UNCHANGED <<pc, state, an, sq, aresp, sresp, outcome, reply, figs,
                   files, trace, classified, attempts, loop, inputs, probe>>

\* handle_document up to its download: the extension check on the name
HandleDocument(u) ==
    /\ loop = "free"
    /\ ing.up[u].pc = "idle"
    /\ \E filename \in UploadNames :
          ing' = [ing EXCEPT !.up[u] =
                     [@ EXCEPT !.filename = filename,
                               !.pc = IF EndsWith(filename, XlsxExt)
                                         \/ EndsWith(filename, CsvExt)
                                      THEN "download" ELSE "rejected"]]
    /\ UNCHANGED <<pc, state, an, sq, aresp, sresp, outcome, reply, figs,
                   files, trace, classified, attempts, loop, inputs, probe>>

\* process_file up to the schema call: the object name from the clock, the
\* upload, the preview read
ProcessFile(u) ==
    /\ loop = "free"
    /\ ing.up[u].pc = "download"
    /\ LET filename == ing.up[u].filename
           unique_name == ObjectName(ing.clock, filename)
       IN  \E put \in PutOutcomes, preview \in PreviewOutcomes :
              IF put = "raises"
              THEN ing' = [ing EXCEPT !.up[u].pc = "failed"]
              ELSE ing' = [ing EXCEPT
                              !.blobs = PutObject(@, unique_name, Bytes(u)),
                              !.up[u] = [@ EXCEPT
                                  !.minio_path = unique_name,
                                  !.pc = IF preview = "raises" THEN "failed"
                                         ELSE "analysing"]]
    /\ UNCHANGED <<pc, state, an, sq, aresp, sresp, outcome, reply, figs,
                   files, trace, classified, attempts, loop, inputs, probe>>

\* process_file from the schema reply on: the row is built and committed
Persist(u) ==
    /\ loop = "free"
    /\ ing.up[u].pc = "analysing"
    /\ \E schema_info \in SchemaOutcomes :
          IF schema_info = "not a dict" \/ PathTaken(files, ing.up[u].minio_path)
          THEN /\ ing' = [ing EXCEPT !.up[u].pc = "failed"]
               /\ UNCHANGED files
          ELSE /\ files' = Append(files,
                               [id |-> Len(files) + 1,
                                filename |-> ing.up[u].filename,
                                minio_path |-> ing.up[u].minio_path])
               /\ ing' = [ing EXCEPT !.up[u] =
                             [@ EXCEPT !.pc = "stored",
                                       !.row = Len(files) + 1]]
    /\ UNCHANGED <<pc, state, an, sq, aresp, sresp, outcome, reply, figs,
                   trace, classified, attempts, loop, inputs, probe>>

\* two documents sent to the bot while the clock runs
InitIngest == InitRun({}, "narrow", {<<>>})
NextIngest ==
    \/ Tick
    \/ \E u \in Uploads : HandleDocument(u)
    \/ \E u \in Uploads : ProcessFile(u)
    \/ \E u \in Uploads : Persist(u)
SpecIngest == InitIngest /\ [][NextIngest]_vars

\* the steps of one run
Step(r) ==
    \/ HandleText(r) \/ RouterNode(r) \/ RouteCondition(r)
    \/ SqlNode(r) \/ SqlRun(r) \/ SqlInterpret(r)
    \/ PythonNode(r) \/ LoadDatasets(r) \/ Attempt(r) \/ Execute(r)
    \/ GeneralNode(r) \/ Respond(r)

\* ----------------------------------------------------------------- claims
Count(seq, x) == Cardinality({i \in DOMAIN seq : seq[i] = x})
Called(r, x) == Count(trace[r], x) > 0
Failed(a) == a.exc # NoExc
AllFailed(r) == \A j \in DOMAIN attempts[r] : Failed(attempts[r][j])
\* the code text of the last iteration whose generation call returned
LastGenerated(r) ==
    LET gen == {j \in DOMAIN attempts[r] : attempts[r][j].generated}
    IN  IF gen = {} THEN <<>>
        ELSE attempts[r][CHOOSE j \in gen : \A k \in gen : k <= j].code

\* C1: once run_analysis has loaded a dataset, it makes at most 3
\* generate-and-execute attempts (one generation call and at most one
\* execution each), and when it returns with every attempt failed it has made
\* exactly 3.
C1_AttemptsBounded ==
    \A r \in Runs :
        /\ Len(attempts[r]) <= 3
        /\ Count(trace[r], "llm:code") =
              Len(attempts[r]) + (IF pc[r] = "exec" THEN 1 ELSE 0)
        /\ Count(trace[r], "llm:code") <= 3
        /\ Count(trace[r], "exec") <= Len(attempts[r])
        /\ (aresp[r].returned /\ attempts[r] # <<>> /\ AllFailed(r))
              => Len(attempts[r]) = 3

\* a run returned after three failed attempts, one failing in generation and
\* one in execution
C1_Witness ==
    \E r \in Runs :
        /\ aresp[r].returned /\ Len(attempts[r]) = 3 /\ AllFailed(r)
        /\ \E j \in 1..3 : ~attempts[r][j].generated
        /\ \E j \in 1..3 : attempts[r][j].generated

\* C2: when attempt k succeeds after attempts 1..k-1 failed, attempt k is the
\* last one (no later generation or execution call is ever made), run_analysis
\* has returned, executed_code is the code attempt k generated and is_error is
\* false.
C2_SuccessReturnsAtOnce ==
    \A r \in Runs : \A k \in DOMAIN attempts[r] :
        ~Failed(attempts[r][k]) =>
            /\ k = Len(attempts[r])
            /\ \A j \in 1..(k - 1) : Failed(attempts[r][j])
            /\ Count(trace[r], "llm:code") = k
            /\ Count(trace[r], "exec") =
                  Cardinality({j \in 1..k : attempts[r][j].generated})
            /\ aresp[r].returned
            /\ aresp[r].executed_code = attempts[r][k].code
            /\ aresp[r].is_error = FALSE
            /\ pc[r] \in {"END", "replied"}

\* the first attempt raised in execution and the second, with other code,
\* succeeded
C2_Witness ==
    \E r \in Runs :
        /\ Len(attempts[r]) = 2
        /\ attempts[r][1].generated /\ Failed(attempts[r][1])
        /\ ~Failed(attempts[r][2])
        /\ attempts[r][1].code # attempts[r][2].code
        /\ aresp[r].returned

\* C3: when all 3 attempts failed, run_analysis has returned (the workflow
\* call did not raise) a response with is_error = true whose answer text is
\* the failure prefix followed by the error text of the third attempt, and
\* whose executed_code is the last code text a generation call returned.
C3_ExhaustionResponse ==
    \A r \in Runs :
        (Len(attempts[r]) = 3 /\ AllFailed(r)) =>
            /\ aresp[r].returned
            /\ outcome[r] = "returned"
            /\ aresp[r].is_error = TRUE
            /\ LET e == attempts[r][3].exc
               IN  /\ aresp[r].answer_text =
                        <<"Ne udalos. Oshibka: ", e.type, ": ", e.msg,
                          "\nTraceback: ">> \o FormatExc(e)
                   /\ Contains(<<e.type, ": ", e.msg>>, aresp[r].answer_text)
            /\ aresp[r].executed_code = LastGenerated(r)

\* three failed attempts whose first and last errors differ
C3_Witness ==
    \E r \in Runs :
        /\ Len(attempts[r]) = 3 /\ AllFailed(r)
        /\ attempts[r][1].exc # attempts[r][3].exc
        /\ attempts[r][3].generated
        /\ aresp[r].returned

\* C4: when the metadata query gives no entry, run_analysis returns the fixed
\* no-data message with is_error = false, no chart and no code, and the run
\* fetches no blob, asks for no code and executes none.
C4_NoDataResponse ==
    \A r \in Runs :
        (an[r].fetched /\ an[r].files_meta = <<>>) =>
            /\ aresp[r].returned
            /\ aresp[r].answer_text = <<"Net faylov. Zagruzite Excel.">>
            /\ aresp[r].is_error = FALSE
            /\ aresp[r].plot_base64 = None
            /\ aresp[r].executed_code = <<>>
            /\ ~Called(r, "blob") /\ ~Called(r, "llm:code") /\ ~Called(r, "exec")
            /\ attempts[r] = <<>>

\* an analysis run found the table empty
C4_Witness ==
    \E r \in Runs :
        /\ an[r].fetched /\ an[r].files_meta = <<>> /\ files = <<>>
        /\ aresp[r].returned /\ Called(r, "python_agent")

ValidReplies ==
    {"{\"intent\": \"sql\"}", "{\"intent\": \"python\"}",
     "{\"intent\": \"general\"}"}

\* C5: whatever the classifier call gives that is not one of the three
\* intents (an exception, invalid JSON, JSON that is no object, no intent
\* field, null, an unknown value), the router resolves the intent to general,
\* the run goes to the conversational branch and never fails at dispatch.
C5_RouterFailsSoft ==
    \A r \in Runs :
        (classified[r] # "pending" /\ classified[r] \notin ValidReplies) =>
            /\ state[r]["intent"] = General
            /\ ~Called(r, "route:TypeError") /\ ~Called(r, "route:KeyError")
            /\ ~Called(r, "sql_agent") /\ ~Called(r, "python_agent")

BranchEntered(r) ==
    Called(r, "sql_agent") \/ Called(r, "python_agent")
        \/ Called(r, "general_agent")

\* C6: no exception of a branch handler leaves app_workflow.ainvoke: a run
\* whose branch handler was entered never ends with ainvoke raising.
C6_BranchErrorsContained ==
    \A r \in Runs : BranchEntered(r) => outcome[r] # "raised"

ErrorFlagKeys == {"is_error", "isError", "error"}

\* C7: the result ainvoke returns carries an error flag, and the flag is set
\* exactly when the analysis branch ended with is_error = true.
C7_ErrorFlagCarried ==
    \A r \in Runs :
        outcome[r] = "returned" =>
            /\ \E k \in ErrorFlagKeys : k \in DOMAIN state[r]
            /\ \A k \in ErrorFlagKeys \cap DOMAIN state[r] :
                 (state[r][k].v = <<"True">>)
                     <=> (aresp[r].returned /\ aresp[r].is_error)

Branches(r) ==
    Count(trace[r], "sql_agent") + Count(trace[r], "python_agent")
        + Count(trace[r], "general_agent")

\* C8: a run that is over ran the router once, then exactly one branch
\* handler once, and reached END.
C8_OneBranchThenEnd ==
    \A r \in Runs :
        pc[r] \in {"END", "raised", "replied"} =>
            /\ Count(trace[r], "router") = 1
            /\ Branches(r) = 1
            /\ outcome[r] = "returned"

SqlFields == {"sql_query", "sql_result"}
PythonFields == {"python_code", "plot_base64"}
Written(r, fields) == fields \cap DOMAIN state[r] # {}

\* C9: in the result of a completed run, a structured-query field is written
\* only if the intent is sql, an analysis field only if the intent is python,
\* none of them if the intent is general, and never fields of both groups.
C9_FieldsMatchIntent ==
    \A r \in Runs :
        outcome[r] = "returned" =>
            /\ Written(r, SqlFields) => state[r]["intent"] = Str(<<"sql">>)
            /\ Written(r, PythonFields) => state[r]["intent"] = Str(<<"python">>)
            /\ state[r]["intent"] = General =>
                 ~Written(r, SqlFields) /\ ~Written(r, PythonFields)
            /\ ~(Written(r, SqlFields) /\ Written(r, PythonFields))

\* an analysis run ended with its code and a chart in the result
C9_Witness ==
    \E r \in Runs :
        /\ outcome[r] = "returned"
        /\ state[r]["intent"] = Str(<<"python">>)
        /\ PythonFields \subseteq DOMAIN state[r]
        /\ state[r]["plot_base64"].kind = "str"
        /\ state[r]["python_code"].v # <<>>

\* C10: when the reply of the query chain holds no SELECT in any case,
\* generate_response returns that reply verbatim as the answer, marks the
\* query "Not generated", and neither queries the store nor makes the
\* interpretation call.
C10_RefusalVerbatim ==
    \A r \in Runs :
        (sresp[r] # EmptyDict /\ ~Contains(SelectKw, Upper(sq[r].raw))) =>
            /\ sresp[r]["answer"] = Str(sq[r].raw)
            /\ sresp[r]["sql"] = Str(<<"Not generated">>)
            /\ ~Called(r, "store") /\ ~Called(r, "llm:interpret")

\* C11: when db.run raises on the extracted query, generate_response returns
\* (the workflow call does not raise) the dict whose answer is the error
\* prefix followed by the text of the exception; the run made the query call
\* once, ran the query once and never made the interpretation call.
C11_StoreErrorAnswered ==
    \A r \in Runs :
        "error" \in DOMAIN sresp[r] =>
            /\ outcome[r] = "returned"
            /\ pc[r] \in {"END", "replied"}
            /\ \E e \in StoreErrors :
                 /\ sresp[r]["error"] = Str(<<e.msg>>)
                 /\ sresp[r]["answer"] =
                       Str(<<"Oshibka vypolneniya SQL: ", e.msg>>)
            /\ sresp[r]["sql"] = Str(sq[r].clean_sql)
            /\ state[r]["final_answer"] = sresp[r]["answer"]
            /\ Count(trace[r], "store") = 1
            /\ Count(trace[r], "llm:sql") = 1
            /\ ~Called(r, "llm:interpret")

\* a run whose query was cut out of a fenced reply failed in the store and
\* the chat got the error text
C11_Witness ==
    \E r \in Runs :
        /\ "error" \in DOMAIN sresp[r]
        /\ Contains(Fence, sq[r].raw)
        /\ Called(r, "store")
        /\ reply[r].sent
        /\ reply[r].text = <<"Oshibka vypolneniya SQL: ", "no such table">>

\* the last iteration of run r ended without an exception and with at least
\* one figure open
DrewAndSucceeded(tried) ==
    /\ tried # <<>>
    /\ tried[Len(tried)].exc = NoExc
    /\ tried[Len(tried)].nfigs > 0

\* C12: the step in which _execute_safe ends without an exception with at
\* least one figure open returns a response whose plot_base64 is a non-empty
\* string, and leaves the figure registry of the process empty.
C12_ChartCapturedRegistryCleared ==
    [][\A r \in Runs :
         (Len(attempts'[r]) = Len(attempts[r]) + 1
             /\ DrewAndSucceeded(attempts'[r]))
         => /\ figs' = <<>>
            /\ aresp'[r].returned
            /\ aresp'[r].plot_base64.kind = "str"
            /\ aresp'[r].plot_base64.v # <<>>
            /\ state'[r]["plot_base64"] = aresp'[r].plot_base64]_vars

\* the first attempt drew a figure and raised, the second drew one and
\* succeeded, and the chat got the picture
C12_Witness ==
    \E r \in Runs :
        /\ Len(attempts[r]) = 2
        /\ attempts[r][1].nfigs > 0 /\ Failed(attempts[r][1])
        /\ DrewAndSucceeded(attempts[r])
        /\ figs = <<>>
        /\ reply[r].sent /\ reply[r].photo.kind = "str"

\* run r is inside a call that takes time: a model call it awaits, or a
\* store query, a blob fetch and dataset read, or an exec that it runs
SlowAwaited == {"router", "sql_agent", "sql_interpret", "generate",
                "general_agent"}
SlowSynchronous == {"db_run", "loading", "exec"}
InSlowStep(r) == pc[r] \in SlowAwaited \cup SlowSynchronous
Unfinished(r) == pc[r] \notin {"off", "replied"}

\* C13: while one run is inside a slow step (a model call, db.run, the
\* loading loop or exec), every other run that is not over has a step it
\* can take.
C13_SlowStepBlocksNoOne ==
    \A r \in Runs : \A q \in Runs \ {r} :
        (InSlowStep(r) /\ Unfinished(q)) => ENABLED Step(q)

Readers == {"read_csv", "read_excel"}
KindOf(filename) ==
    IF EndsWith(filename, CsvExt) THEN "csv"
    ELSE IF EndsWith(filename, XlsxExt) THEN "xlsx" ELSE "other"

C15_EveryRunReachesEnd ==
    \A r \in Runs :
        /\ Unfinished(r) => ENABLED Step(r)
        /\ Count(trace[r], "llm:code") <= max_retries
        /\ Count(trace[r], "exec") <= max_retries
        /\ pc[r] = "replied" => outcome[r] = "returned"

\* the message of a generation call that carries the error e, and the
\* number of error blocks in a message
MessageWith(e) ==
    Question \o <<"\n\nPREVIOUS ERROR: ", e.type, ": ", e.msg, "\nTraceback: ">>
             \o FormatExc(e)
             \o <<"\nHINT: Remove plt.show()! Check your column names.">>
ErrorBlocks(msg) == Count(msg, "\n\nPREVIOUS ERROR: ")

\* C16: the first generation call of a run gets the question alone; the
\* call of attempt k >= 2 gets the question followed by one error block,
\* the kind, message and trace of the exception of attempt k-1, and the call
\* about to be made carries the error of the last attempt in the same way.
C16_PromptCarriesLastErrorOnly ==
    \A r \in Runs :
        /\ \A k \in DOMAIN attempts[r] :
             IF k = 1
             THEN /\ attempts[r][k].msg = Question
                  /\ ErrorBlocks(attempts[r][k].msg) = 0
             ELSE /\ attempts[r][k].msg = MessageWith(attempts[r][k - 1].exc)
                  /\ ErrorBlocks(attempts[r][k].msg) = 1
        /\ pc[r] = "generate" =>
             an[r].last_error =
                 IF attempts[r] = <<>> THEN None
                 ELSE FormatLastError(attempts[r][Len(attempts[r])].exc)

\* the third generation call carried the error of the second attempt and
\* not the different error of the first
C16_Witness ==
    \E r \in Runs :
        /\ Len(attempts[r]) = 3
        /\ attempts[r][1].exc # attempts[r][2].exc
        /\ Contains(<<attempts[r][2].exc.type, ": ", attempts[r][2].exc.msg>>,
                    attempts[r][3].msg)
        /\ ~Contains(<<attempts[r][1].exc.type, ": ", attempts[r][1].exc.msg>>,
                     attempts[r][3].msg)

\* C17: the generation call that follows a failed attempt whose code was
\* generated is given that code text, as its previous_code argument or
\* inside its message, together with the error of that attempt.
C17_PreviousCodeGiven ==
    \A r \in Runs : \A k \in DOMAIN attempts[r] :
        (k >= 2 /\ attempts[r][k - 1].generated) =>
            /\ \/ attempts[r][k].previous_code = attempts[r][k - 1].code
               \/ Contains(attempts[r][k - 1].code, attempts[r][k].msg)
            /\ Contains(<<attempts[r][k - 1].exc.type, ": ",
                          attempts[r][k - 1].exc.msg>>, attempts[r][k].msg)

\* C18: whenever code of a run is about to be executed, every table of the
\* run handed to it is as it was loaded at setup, whatever the code of the
\* earlier attempts did.
C18_TablesAsLoaded ==
    \A r \in Runs :
        pc[r] = "exec" =>
            \A id \in DOMAIN an[r].dfs : an[r].dfs[id] = "as_loaded"

\* what the executed code left for final_result is nothing: no binding,
\* None or the empty string
AbsentOrEmpty(b) == ~b.bound \/ b.val = None \/ b.val = Str(<<>>)

\* C19: when exec ends without an exception and final_result is unbound,
\* None or the empty string, run_analysis returns the placeholder text as
\* the answer, with is_error false and the code of that attempt.
C19_PlaceholderForNoResult ==
    \A r \in Runs : \A k \in DOMAIN attempts[r] :
        (~Failed(attempts[r][k]) /\ AbsentOrEmpty(attempts[r][k].final_result))
        => /\ aresp[r].returned
           /\ aresp[r].answer_text = <<"Kod vypolnen.">>
           /\ aresp[r].is_error = FALSE
           /\ aresp[r].executed_code = attempts[r][k].code

ChartMessage == <<"Grafik postroen.">>
\* the last iteration of run r, which ended without an exception
Succeeded(r) ==
    /\ attempts[r] # <<>>
    /\ ~Failed(attempts[r][Len(attempts[r])])
LastTried(r) == attempts[r][Len(attempts[r])]

\* C20: after an execution that left a figure open, the answer is the chart
\* message when final_result was not a string and is final_result itself
\* when it was a string (which may be that same text); after one that left
\* no figure open the answer is str(final_result) and plot_base64 is None.
C20_ChartTextRule ==
    \A r \in Runs :
        Succeeded(r) =>
            LET final_result == ReadFinalResult(LastTried(r).final_result)
            IN  /\ aresp[r].returned
                /\ LastTried(r).nfigs > 0 =>
                     /\ final_result.kind # "str"
                           => aresp[r].answer_text = ChartMessage
                     /\ final_result.kind = "str"
                           => aresp[r].answer_text = final_result.v
                     /\ aresp[r].plot_base64.kind = "str"
                /\ LastTried(r).nfigs = 0 =>
                     /\ aresp[r].answer_text = PyStr(final_result)
                     /\ aresp[r].plot_base64 = None

\* C20 as stated: with a figure the answer is the chart message exactly
\* when final_result was not a string, a string is returned unchanged, and
\* with no figure final_result is returned as it is and with no chart.
C20_AsStated ==
    \A r \in Runs :
        Succeeded(r) =>
            LET final_result == ReadFinalResult(LastTried(r).final_result)
            IN  /\ LastTried(r).nfigs > 0 =>
                     /\ (aresp[r].answer_text = ChartMessage)
                           <=> (final_result.kind # "str")
                     /\ final_result.kind = "str"
                           => aresp[r].answer_text = final_result.v
                /\ LastTried(r).nfigs = 0 =>
                     /\ aresp[r].answer_text = PyStr(final_result)
                     /\ aresp[r].plot_base64 = None

\* the code drew a figure and set final_result to the chart message itself,
\* and the chat got the picture with that text
C20_Witness ==
    \E r \in Runs :
        /\ Succeeded(r) /\ LastTried(r).nfigs > 0
        /\ LastTried(r).final_result = Binding(TRUE, Str(ChartMessage))
        /\ aresp[r].answer_text = ChartMessage
        /\ reply[r].sent /\ reply[r].photo.kind = "str"

\* the extraction as C21 words it: one rule, chosen by priority
LeadingTagRemoved(content) ==
    IF MatchAt(SqlTag, content, 0) THEN Slice(content, Len(SqlTag))
    ELSE content
AfterFirst(sep, g) == Slice(g, Find(sep, g) + Len(sep))
FromSelect(g) == Slice(g, Find(SelectKw, Upper(g)))
OneRuleExtraction(raw) ==
    IF Contains(Fence, raw)
    THEN LeadingTagRemoved(Split(raw, Fence)[2])
    ELSE IF Contains(SqlQueryLabel, raw)
         THEN AfterFirst(SqlQueryLabel, raw)
         ELSE FromSelect(raw)
Queried(r) == pc[r] = "db_run" \/ Called(r, "store")

\* C21: the query handed to db.run is what one rule gives for the reply of
\* the query chain: the content after the first fence up to the next one
\* with only a leading "sql" tag removed when a fence is present, else the
\* text after the first "SQLQuery:" label when a label is present, else the
\* text from the first SELECT in any case; granted the cut at SELECT and the
\* strip of surrounding whitespace that the code applies last in every case.
C21_OneRuleByPriority ==
    \A r \in Runs :
        Queried(r) =>
            LET picked == OneRuleExtraction(sq[r].raw)
            IN  \/ sq[r].clean_sql = Strip(picked)
                \/ /\ Contains(SelectKw, Upper(picked))
                   /\ sq[r].clean_sql = Strip(FromSelect(picked))

\* the names _execute_safe puts into a scope for the tables of run r
OwnNames(r) == {"pd", "plt"} \cup DfNames(an[r].dfs)

\* C22: the scope of every execution holds the two handles, the tables of
\* the run and the names its own code bound, nothing of an earlier attempt:
\* final_result is in it exactly when this code bound it, with that value,
\* and the answer of a successful attempt is read from this scope (the
\* placeholder when its code bound nothing, whatever a failed attempt bound).
C22_FreshScopePerAttempt ==
    \A r \in Runs : \A k \in DOMAIN attempts[r] :
        LET a == attempts[r][k]
        IN  a.generated =>
              /\ DOMAIN a.local_scope \subseteq OwnNames(r) \cup {"final_result"}
              /\ {"pd", "plt"} \subseteq DOMAIN a.local_scope
              /\ "final_result" \in DOMAIN a.local_scope <=> a.final_result.bound
              /\ a.final_result.bound
                    => a.local_scope["final_result"] = a.final_result.val
              /\ ~Failed(a) =>
                    /\ aresp[r].returned
                    /\ a.nfigs = 0 =>
                         aresp[r].answer_text =
                             PyStr(ReadFinalResult(a.final_result))

\* the first attempt bound final_result and raised, the second bound nothing
\* and succeeded: the answer is the placeholder
C22_Witness ==
    \E r \in Runs :
        /\ Len(attempts[r]) = 2
        /\ Failed(attempts[r][1])
        /\ attempts[r][1].final_result = Binding(TRUE, Str(<<"Data not found">>))
        /\ ~Failed(attempts[r][2])
        /\ ~attempts[r][2].final_result.bound
        /\ aresp[r].answer_text = <<"Kod vypolnen.">>

\* C23: a chart in the response of a run is the picture of a figure that the
\* code in executed_code drew in the successful execution of that run: the
\* response has a chart exactly when that execution left a figure of its own
\* open, whatever figures failed attempts of this run or executions of the
\* other run left in the registry.
C23_ChartFromOwnCode ==
    \A r \in Runs :
        aresp[r].returned =>
            IF Succeeded(r) /\ LastTried(r).nfigs > 0
            THEN /\ LastTried(r).code = aresp[r].executed_code
                 /\ aresp[r].plot_base64 =
                       PlotB64(Drawn(r, aresp[r].executed_code,
                                     LastTried(r).nfigs))
            ELSE aresp[r].plot_base64 = None

\* one run returned with no chart, its code having drawn nothing, after the
\* other run's failed attempt had left a figure open, and that attempt's
\* figure is gone from the registry
C23_Witness ==
    \E r \in Runs : \E q \in Runs \ {r} :
        /\ Succeeded(r) /\ LastTried(r).nfigs = 0
        /\ aresp[r].plot_base64 = None
        /\ pc[q] = "generate"
        /\ Len(attempts[q]) = 1 /\ attempts[q][1].nfigs > 0
        /\ figs = <<>>

\* C24: the text handed to db.run begins with SELECT in some case and is,
\* up to the whitespace strip() removes, a suffix of the reply as it stands
\* after the fence and label steps.
C24_StoreGetsSelectOnly ==
    \A r \in Runs :
        Queried(r) =>
            /\ MatchAt(SelectKw, Upper(sq[r].clean_sql), 0)
            /\ \E i \in 0..Len(CleanupBlock(sq[r].raw)) :
                 sq[r].clean_sql = Strip(Slice(CleanupBlock(sq[r].raw), i))

\* C25: in the response after three failed attempts, executed_code is the
\* code of the third attempt, whose error the answer text carries; it is
\* empty when the third generation call itself raised.
C25_ErrorPairedWithItsCode ==
    \A r \in Runs :
        (aresp[r].returned /\ Len(attempts[r]) = 3 /\ AllFailed(r)) =>
            /\ Contains(<<attempts[r][3].exc.type, ": ", attempts[r][3].exc.msg>>,
                        aresp[r].answer_text)
            /\ aresp[r].executed_code = attempts[r][3].code

\* uploads whose bytes reached the bucket, and uploads whose row was committed
Uploaded(u) == ing.up[u].minio_path # <<>>
Persisted(u) == ing.up[u].pc = "stored"
\* C26: any two ingestions are stored under distinct storage locators, so no
\* upload overwrites the object of another, and every committed row points to
\* the bytes that were uploaded with it.
C26_DistinctLocators ==
    /\ \A u, v \in Uploads :
          u # v /\ Uploaded(u) /\ Uploaded(v)
              => ing.up[u].minio_path # ing.up[v].minio_path
    /\ \A u \in Uploads :
          Persisted(u) => ing.blobs[files[ing.up[u].row].minio_path] = Bytes(u)

====
